---- MODULE Spec2Model ----
(***************************************************************************)
(* Incident tracker (src/incident_tracker.py): a Flask + SQLAlchemy CRUD   *)
(* service over one SQLite table.  The model keeps the table `incidents`   *)
(* as a set of rows, and for the request being answered the request, its   *)
(* response and the table as it was when the request arrived.              *)
(***************************************************************************)
EXTENDS Integers, Sequences, FiniteSets, TLC

\* ---------------------------------------------------------------- bounds
\* Largest rowid the table is allowed to hand out (so at most MaxId rows).
MaxId == 2

\* ----------------------------------------------------------- JSON values
\* A JSON value is a tagged tuple.  A string is <<"str">> followed by its
\* chunks of text; the chunk " " is whitespace, any other chunk is not.
Absent == <<"absent">>
Null == <<"null">>
NumZero == <<"num", "0">>
NumSeven == <<"num", "7">>
Str(chunks) == <<"str">> \o chunks
IsStr(v) == v[1] = "str"
Chunks(v) == Tail(v)

\* Python truthiness of what dict.get / request.args.get returns (a missing
\* key gives None).
Truthy(v) ==
    CASE v = Absent -> FALSE
      [] v = Null -> FALSE
      [] IsStr(v) -> Len(Chunks(v)) > 0
      [] OTHER -> v # NumZero

\* str.strip(): drops leading and trailing whitespace.
RECURSIVE lstrip(_)
lstrip(s) == IF s # <<>> /\ Head(s) = " " THEN lstrip(Tail(s)) ELSE s
RECURSIVE rstrip(_)
rstrip(s) == IF s # <<>> /\ s[Len(s)] = " " THEN rstrip(SubSeq(s, 1, Len(s) - 1)) ELSE s
strip(v) == Str(rstrip(lstrip(Chunks(v))))

\* ------------------------------------------------------------------ enums
LOW == Str(<<"Low">>)
MEDIUM == Str(<<"Medium">>)
HIGH == Str(<<"High">>)
Severity == <<LOW, MEDIUM, HIGH>>

OPEN == Str(<<"Open">>)
IN_PROGRESS == Str(<<"In Progress">>)
RESOLVED == Str(<<"Resolved">>)
Status == <<OPEN, IN_PROGRESS, RESOLVED>>

Range(s) == {s[i] : i \in DOMAIN s}

\* --------------------------------------------------------------- payloads
\* request.get_json(): either None (present = FALSE) or a JSON object; a key
\* the object does not hold maps to Absent.
Keys == {"title", "description", "reported_by", "severity", "status"}
NoObject == [k \in Keys |-> Absent]
NoData == [present |-> FALSE, obj |-> NoObject]
Object(o) == [present |-> TRUE, obj |-> o]
Has(data, k) == data.obj[k] # Absent
\* `not data`: None and the empty object are both falsy.
DataTruthy(data) == data.present /\ \E k \in Keys : Has(data, k)
\* data.get(k)
Get(data, k) == IF Has(data, k) THEN data.obj[k] ELSE Null

\* ------------------------------------------------------------------- rows
\* Incident.__init__: a row of the table (id is set by the insert).
Incident(id, title, description, reported_by, severity, t) ==
    [id |-> id, title |-> title, description |-> description,
     reported_by |-> reported_by, severity |-> severity,
     status |-> OPEN, timestamp |-> t]

\* datetime.isoformat(): the rendering of a timestamp.
isoformat(t) == <<"iso", t>>

\* Incident.to_dict
to_dict(row) ==
    [id |-> row.id, title |-> row.title, description |-> row.description,
     reported_by |-> row.reported_by, severity |-> row.severity,
     timestamp |-> isoformat(row.timestamp), status |-> row.status]

\* ------------------------------------------------------------- responses
\* jsonify(...), status: `body` holds the serialized record(s), `total` the
\* count a listing reports.
Response(code, error, missing, body, total) ==
    [code |-> code, error |-> error, missing |-> missing, body |-> body, total |-> total]
NoJsonData == Response(400, "No JSON data provided", <<>>, <<>>, 0)
MissingFields(missing) == Response(400, "Missing required field(s)", missing, <<>>, 0)
InvalidSeverity == Response(400, "Invalid severity", <<>>, <<>>, 0)
InvalidStatus == Response(400, "Invalid status", <<>>, <<>>, 0)
NotFound == Response(404, "Incident not found", <<>>, <<>>, 0)
\* An exception escaping the handler: Flask answers 500, nothing is committed.
ServerError == Response(500, "Internal Server Error", <<>>, <<>>, 0)
Ok(code, dicts) == Response(code, "", <<>>, dicts, 0)

\* ------------------------------------------------------------------ state
VARIABLES
    incidents,  \* the table: a set of rows
    issued,     \* history: every id handed out by a create already answered
    before,     \* history: the table when the current request arrived
    req,        \* the request being answered
    resp,       \* the response to it
    pc          \* "idle" between requests, "done" when a handler has returned

vars == <<incidents, issued, before, req, resp, pc>>

Request(op, id, data, status_filter, severity_filter) ==
    [op |-> op, id |-> id, data |-> data,
     status_filter |-> status_filter, severity_filter |-> severity_filter]

NoRequest == Request("none", 0, NoData, Absent, Absent)
NoResponse == Ok(0, <<>>)

\* with app.app_context(): db.create_all() -- an empty table.
Init ==
    /\ incidents = {}
    /\ issued = {}
    /\ before = {}
    /\ req = NoRequest
    /\ resp = NoResponse
    /\ pc = "idle"

\* ------------------------------------------------------------ validation
RequiredKeys == <<"title", "description", "reported_by">>

\* Mutant of IsMissing: the whitespace test forgotten.
IsMissingNoStrip(data, k) == ~Truthy(Get(data, k))

\* `not data.get(k) or not data.get(k).strip()`
IsMissing(data, k) ==
    \/ ~Truthy(Get(data, k))
    \/ ~Truthy(strip(Get(data, k)))

\* .strip() on a truthy value that is no string raises AttributeError.  The
\* comprehension visits all three keys, so one such value anywhere raises.
StripRaises(data) ==
    \E i \in DOMAIN RequiredKeys :
        Truthy(Get(data, RequiredKeys[i])) /\ ~IsStr(Get(data, RequiredKeys[i]))

MissingOf(data) == SelectSeq(RequiredKeys, LAMBDA k : IsMissing(data, k))

\* Mutant of SeverityRejected: any severity is let through.
SeverityNeverRejected(data) == FALSE

\* `"severity" in data and data["severity"] not in valid_severity`
SeverityRejected(data) ==
    Has(data, "severity") /\ data.obj["severity"] \notin Range(Severity)

\* validate_fields: <<>> is None, <<r>> the error response r.
validate_fields(data) ==
    IF ~DataTruthy(data) THEN <<NoJsonData>>
    ELSE IF StripRaises(data) THEN <<ServerError>>
    ELSE IF MissingOf(data) # <<>> THEN <<MissingFields(MissingOf(data))>>
    ELSE IF SeverityRejected(data) THEN <<InvalidSeverity>>
    ELSE <<>>

\* ---------------------------------------------------------------- storage
Max(S) == CHOOSE m \in S : \A x \in S : x <= m

\* SQLite, INTEGER PRIMARY KEY without the AUTOINCREMENT keyword (SQLAlchemy
\* renders it only under sqlite_autoincrement): the new rowid is one more
\* than the largest rowid now in the table, 1 for an empty table.
NextRowid(rows) == IF rows = {} THEN 1 ELSE Max({r.id : r \in rows}) + 1

\* db.session.get(Incident, incident_id): the rows with that primary key.
Lookup(rows, id) == {r \in rows : r.id = id}

\* datetime.now(timezone.utc) at a create.  Timestamps are kept up to their
\* order: the clock does not run backwards, so the reading is that of the
\* latest row in the table (the same instant) or a later one.
utc_now(rows) ==
    IF rows = {} THEN {0}
    ELSE LET latest == Max({r.timestamp : r \in rows}) IN {latest, latest + 1}

\* ------------------------------------------------------------ operations
\* The response goes out and the request context is dropped.
SendResponse ==
    /\ pc = "done"
    /\ pc' = "idle"
    /\ issued' = IF req.op = "create" /\ resp.code = 201
                 THEN issued \cup {resp.body[1].id} ELSE issued
    /\ req' = NoRequest
    /\ resp' = NoResponse
    /\ before' = incidents
    /\ UNCHANGED incidents

\* POST /incidents
create_incident(data) ==
    LET err == validate_fields(data)
    IN  /\ pc = "idle" /\ pc' = "done"
        /\ req' = Request("create", 0, data, Absent, Absent)
        /\ before' = incidents
        /\ IF err # <<>>
           THEN /\ resp' = err[1]
                /\ UNCHANGED incidents
           ELSE /\ NextRowid(incidents) <= MaxId
                /\ \E t \in utc_now(incidents) :
                     LET row == Incident(NextRowid(incidents), data.obj["title"],
                                    data.obj["description"], data.obj["reported_by"],
                                    IF Has(data, "severity") THEN data.obj["severity"]
                                                             ELSE MEDIUM,
                                    t)
                     IN  /\ incidents' = incidents \cup {row}
                         /\ resp' = Ok(201, <<to_dict(row)>>)
        /\ UNCHANGED issued

\* Mutant of UpdateError: the payload is checked before the lookup.
UpdateErrorPayloadFirst(found, data) ==
    IF ~DataTruthy(data) THEN <<NoJsonData>>
    ELSE IF Has(data, "status") /\ data.obj["status"] \notin Range(Status)
         THEN <<InvalidStatus>>
    ELSE IF found = {} THEN <<NotFound>>
    ELSE <<>>

\* update_incident's early returns, in order: <<>> when none is taken.
UpdateError(found, data) ==
    IF found = {} THEN <<NotFound>>
    ELSE IF ~DataTruthy(data) THEN <<NoJsonData>>
    ELSE IF Has(data, "status") /\ data.obj["status"] \notin Range(Status)
         THEN <<InvalidStatus>>
    ELSE <<>>

\* Mutant of UpdatedRow: severity is taken from the payload as well.
UpdatedRowWithSeverity(incident, data) ==
    LET r == IF Has(data, "status")
             THEN [incident EXCEPT !.status = data.obj["status"]] ELSE incident
    IN  IF Has(data, "severity") THEN [r EXCEPT !.severity = data.obj["severity"]] ELSE r

\* Mutant of UpdatedRow: a payload without a status puts the row back to Open.
UpdatedRowResetsStatus(incident, data) ==
    IF Has(data, "status")
    THEN [incident EXCEPT !.status = data.obj["status"]]
    ELSE [incident EXCEPT !.status = OPEN]

\* `if "status" in data: incident.status = data["status"]`
UpdatedRow(incident, data) ==
    IF Has(data, "status")
    THEN [incident EXCEPT !.status = data.obj["status"]]
    ELSE incident

\* PATCH /incidents/<incident_id>
update_incident(incident_id, data) ==
    LET found == Lookup(incidents, incident_id)
        err == UpdateError(found, data)
    IN  /\ pc = "idle" /\ pc' = "done"
        /\ req' = Request("update", incident_id, data, Absent, Absent)
        /\ before' = incidents
        /\ IF err # <<>>
           THEN /\ resp' = err[1]
                /\ UNCHANGED incidents
           ELSE LET incident == CHOOSE r \in found : TRUE
                    updated == UpdatedRow(incident, data)
                IN  /\ incidents' = (incidents \ {incident}) \cup {updated}
                    /\ resp' = Ok(200, <<to_dict(updated)>>)
        /\ UNCHANGED issued

\* DELETE /incidents/<incident_id>
delete_incident(incident_id) ==
    LET found == Lookup(incidents, incident_id)
    IN  /\ pc = "idle" /\ pc' = "done"
        /\ req' = Request("delete", incident_id, NoData, Absent, Absent)
        /\ before' = incidents
        /\ IF found = {}
           THEN /\ resp' = NotFound
                /\ UNCHANGED incidents
           ELSE LET incident == CHOOSE r \in found : TRUE
                IN  /\ incidents' = incidents \ {incident}
                    /\ resp' = Ok(200, <<to_dict(incident)>>)
        /\ UNCHANGED issued

\* Mutant of Filtered: the two filters are ORed.
FilteredOr(rows, status_filter, severity_filter) ==
    {r \in rows :
        \/ ~Truthy(status_filter) /\ ~Truthy(severity_filter)
        \/ Truthy(status_filter) /\ r.status = status_filter
        \/ Truthy(severity_filter) /\ r.severity = severity_filter}

\* The rows a query with these filters selects: `if status_filter:` skips a
\* missing or empty filter.
Filtered(rows, status_filter, severity_filter) ==
    {r \in rows :
        /\ Truthy(status_filter) => r.status = status_filter
        /\ Truthy(severity_filter) => r.severity = severity_filter}

\* Mutant of OrderByTimestampDesc: ascending order.
OrderByTimestampAsc(rows) ==
    LET ordered[S \in SUBSET rows] ==
            IF S = {} THEN {<<>>}
            ELSE UNION {{<<r>> \o s : s \in ordered[S \ {r}]} :
                        r \in {x \in S : \A y \in S : x.timestamp <= y.timestamp}}
    IN  ordered[rows]

\* ORDER BY timestamp DESC: the sequences that hold each row once, a row
\* with the greatest timestamp first and the rest ordered likewise.  Rows
\* with equal timestamps come in an order the engine chooses.
OrderByTimestampDesc(rows) ==
    LET ordered[S \in SUBSET rows] ==
            IF S = {} THEN {<<>>}
            ELSE UNION {{<<r>> \o s : s \in ordered[S \ {r}]} :
                        r \in {x \in S : \A y \in S : x.timestamp >= y.timestamp}}
    IN  ordered[rows]

\* GET /incidents
get_incidents(status_filter, severity_filter) ==
    /\ pc = "idle" /\ pc' = "done"
    /\ req' = Request("list", 0, NoData, status_filter, severity_filter)
    /\ before' = incidents
    /\ \E rowlist \in OrderByTimestampDesc(Filtered(incidents, status_filter, severity_filter)) :
            resp' = Response(200, "", <<>>, [i \in DOMAIN rowlist |-> to_dict(rowlist[i])],
                            Len(rowlist))
    /\ UNCHANGED <<incidents, issued>>

\* ----------------------------------------------------------------- inputs
TitleValues == {Absent, Str(<<" ">>), NumSeven, Str(<<" ", "a", " ">>)}
DescriptionValues == {Str(<<>>), Str(<<"b">>)}
ReportedByValues == {Absent, Str(<<"c", " ">>)}
SeverityValues == {Absent, LOW, MEDIUM, HIGH, Str(<<"important">>)}
StatusValues == {OPEN, IN_PROGRESS, RESOLVED, Str(<<"Working on it">>)}

CreatePayloads ==
    {NoData, Object(NoObject)} \cup
    {Object([NoObject EXCEPT !["title"] = t, !["description"] = d,
                             !["reported_by"] = r, !["severity"] = s]) :
        t \in TitleValues, d \in DescriptionValues, r \in ReportedByValues,
        s \in SeverityValues}

UpdatePayloads ==
    {NoData, Object(NoObject),
     Object([NoObject EXCEPT !["severity"] = HIGH, !["title"] = Str(<<"z">>)])} \cup
    {Object([NoObject EXCEPT !["status"] = s]) : s \in StatusValues} \cup
    {Object([NoObject EXCEPT !["status"] = s, !["severity"] = HIGH, !["title"] = Str(<<"z">>)]) :
        s \in StatusValues}

Ids == 1..(MaxId + 1)
StatusFilters == {Absent, Str(<<>>), OPEN, RESOLVED, Str(<<"open">>)}
SeverityFilters == {Absent, Str(<<>>), MEDIUM, HIGH}

Next ==
    \/ SendResponse
    \/ \E data \in CreatePayloads : create_incident(data)
    \/ \E id \in Ids, data \in UpdatePayloads : update_incident(id, data)
    \/ \E id \in Ids : delete_incident(id)
    \/ \E sf \in StatusFilters, vf \in SeverityFilters : get_incidents(sf, vf)

Spec == Init /\ [][Next]_vars

\* ------------------------------------------------------------ properties
Done(op) == pc = "done" /\ req.op = op
IdsOf(rows) == {r.id : r \in rows}
ValidSeverities == {LOW, MEDIUM, HIGH}
ValidStatuses == {OPEN, IN_PROGRESS, RESOLVED}

\* A payload field that is absent, empty or whitespace-only.
BlankField(data, k) ==
    LET v == data.obj[k]
    IN  \/ v = Absent
        \/ IsStr(v) /\ \A i \in DOMAIN Chunks(v) : Chunks(v)[i] = " "

\* A payload field that is a string with some text besides whitespace.
TextField(data, k) ==
    LET v == data.obj[k]
    IN  IsStr(v) /\ \E i \in DOMAIN Chunks(v) : Chunks(v)[i] # " "

ValidCreatePayload(data) ==
    /\ data.present
    /\ \A i \in DOMAIN RequiredKeys : TextField(data, RequiredKeys[i])
    /\ data.obj["severity"] \in ValidSeverities \cup {Absent}

\* C1: a create with a valid payload answers 201 and adds exactly one row,
\* with status Open, the supplied severity (Medium when none is supplied) and
\* an id that no earlier create has handed out, deleted rows included.
C1_CreateIssuesFreshId ==
    Done("create") /\ ValidCreatePayload(req.data) =>
        /\ resp.code = 201
        /\ Len(resp.body) = 1
        /\ \E row \in incidents :
            /\ row \notin before
            /\ incidents = before \cup {row}
            /\ resp.body[1].id = row.id
            /\ row.status = OPEN /\ resp.body[1].status = OPEN
            /\ row.severity = (IF Has(req.data, "severity")
                               THEN req.data.obj["severity"] ELSE MEDIUM)
            /\ resp.body[1].severity = row.severity
            /\ row.id \notin issued

\* C2: a create whose payload has a required field absent, empty or
\* whitespace-only answers 400 with `missing` listing exactly those fields in
\* the order title, description, reported_by, whatever the severity, and
\* stores nothing.
C2_MissingFieldsListed ==
    Done("create") /\ req.data.present
        /\ (\E i \in DOMAIN RequiredKeys : BlankField(req.data, RequiredKeys[i])) =>
        /\ resp.code = 400
        /\ resp.missing = SelectSeq(RequiredKeys, LAMBDA k : BlankField(req.data, k))
        /\ incidents = before

\* C3: an update of an existing row with a valid status answers 200 with the
\* supplied status and the same id, stores that status whatever the status
\* was, and changes nothing else in the table, also when the payload carries
\* other fields.
C3_UpdateSetsOnlyStatus ==
    Done("update") /\ req.data.present /\ req.data.obj["status"] \in ValidStatuses =>
        \A r \in before : r.id = req.id =>
            LET r2 == [id |-> r.id, title |-> r.title, description |-> r.description,
                       reported_by |-> r.reported_by, severity |-> r.severity,
                       status |-> req.data.obj["status"], timestamp |-> r.timestamp]
            IN  /\ resp.code = 200
                /\ Len(resp.body) = 1
                /\ resp.body[1].status = req.data.obj["status"]
                /\ resp.body[1].id = req.id
                /\ incidents = (before \ {r}) \cup {r2}

\* Witness of C3: a Resolved row, one of two, is set to In Progress by a
\* payload that also carries another severity and a title.
C3_Witness ==
    /\ Done("update") /\ resp.code = 200
    /\ Cardinality(before) >= 2
    /\ req.data.obj["status"] = IN_PROGRESS
    /\ Has(req.data, "title")
    /\ \E r \in before : /\ r.id = req.id /\ r.status = RESOLVED
                         /\ Has(req.data, "severity")
                         /\ r.severity # req.data.obj["severity"]

\* C4: a request answered 400 or 404 leaves the table as it was; a create
\* with a severity outside Low, Medium, High stores nothing and an update
\* with a status outside Open, In Progress, Resolved changes nothing.
C4_ErrorsChangeNothing ==
    /\ pc = "done" /\ resp.code \in {400, 404} => incidents = before
    /\ Done("create") /\ req.data.present /\ Has(req.data, "severity")
            /\ req.data.obj["severity"] \notin ValidSeverities
        => incidents = before /\ resp.code # 201
    /\ Done("update") /\ req.data.present /\ Has(req.data, "status")
            /\ req.data.obj["status"] \notin ValidStatuses
        => incidents = before /\ resp.code # 200

\* Witness of C4: a create with text in every required field is refused for
\* its severity while the table holds rows.
C4_Witness ==
    /\ Done("create") /\ resp.code = 400 /\ resp.error = "Invalid severity"
    /\ \A i \in DOMAIN RequiredKeys : TextField(req.data, RequiredKeys[i])
    /\ before # {}

\* C5: an update or delete of an id the table does not hold answers 404
\* "Incident not found", whatever the payload.
C5_UnknownIdIs404 ==
    (Done("update") \/ Done("delete")) /\ req.id \notin IdsOf(before) =>
        resp.code = 404 /\ resp.error = "Incident not found"

\* Witness of C5: an update with an invalid status, to an id that was issued
\* and has since been deleted, is answered 404.
C5_Witness ==
    /\ Done("update") /\ resp.code = 404
    /\ req.id \in issued /\ req.id \notin IdsOf(before)
    /\ Has(req.data, "status") /\ req.data.obj["status"] \notin ValidStatuses

\* C6: a delete of an existing id answers 200 with the row as it was stored,
\* removes that row and no other, and the id is gone for good: later updates
\* and deletes of it find nothing (404, by C5).
C6_DeleteEffect ==
    Done("delete") =>
        \A r \in before : r.id = req.id =>
            /\ resp.code = 200
            /\ resp.body = <<to_dict(r)>>
            /\ incidents = before \ {r}
            /\ Cardinality(incidents) = Cardinality(before) - 1
C6_StaysDeleted ==
    \A id \in issued : id \notin IdsOf(incidents) => id \notin IdsOf(incidents')
C6_DeleteRemovesForGood == [](C6_DeleteEffect) /\ [][C6_StaysDeleted]_vars

\* The rows a listing is to return when every filter that is not Absent
\* counts as supplied.
MatchingSupplied(rows, status_filter, severity_filter) ==
    {r \in rows :
        /\ status_filter # Absent => r.status = status_filter
        /\ severity_filter # Absent => r.severity = severity_filter}

\* The rows a listing is to return when an empty filter counts as no filter.
MatchingNonEmpty(rows, status_filter, severity_filter) ==
    {r \in rows :
        /\ status_filter \notin {Absent, Str(<<>>)} => r.status = status_filter
        /\ severity_filter \notin {Absent, Str(<<>>)} => r.severity = severity_filter}

\* A listing answers 200, holds each of `rows` once and nothing else, and
\* reports their number.
ListsExactly(rows) ==
    /\ resp.code = 200
    /\ Range(resp.body) = {to_dict(r) : r \in rows}
    /\ Len(resp.body) = Cardinality(rows)
    /\ resp.total = Len(resp.body)

\* C7 as stated: a listing returns exactly the stored rows that equal every
\* filter the caller supplied, any string value included.
C7_ListAppliesSuppliedFilters ==
    Done("list") =>
        ListsExactly(MatchingSupplied(before, req.status_filter, req.severity_filter))

\* C7 amended: a listing returns exactly the stored rows that equal every
\* non-empty filter, each once, with total their number; a filter supplied as
\* the empty string is ignored like an absent one.
C7_ListAppliesNonEmptyFilters ==
    Done("list") =>
        ListsExactly(MatchingNonEmpty(before, req.status_filter, req.severity_filter))

\* Witness of C7: an empty status filter with severity High returns one of
\* two stored rows.
C7_Witness ==
    /\ Done("list")
    /\ req.status_filter = Str(<<>>) /\ req.severity_filter = HIGH
    /\ Cardinality(before) >= 2
    /\ Len(resp.body) = 1

\* The ids of a sequence of rows, in order.
IdSeq(s) == [i \in DOMAIN s |-> s[i].id]

\* C8: in a listing, of two rows with different timestamps the one created
\* later (the greater timestamp, and the greater id) comes first; an update
\* leaves the orders a listing can give as they were.
C8_ListNewestFirst ==
    /\ Done("list") =>
        \A i, j \in DOMAIN resp.body :
            i < j /\ resp.body[i].timestamp # resp.body[j].timestamp =>
                /\ resp.body[i].timestamp[2] > resp.body[j].timestamp[2]
                /\ resp.body[i].id > resp.body[j].id
    /\ Done("update") =>
        {IdSeq(s) : s \in OrderByTimestampDesc(incidents)}
            = {IdSeq(s) : s \in OrderByTimestampDesc(before)}

\* Witness of C8: a listing of two rows created at different times, the
\* later one with its status updated.
C8_Witness ==
    /\ Done("list")
    /\ Len(resp.body) = 2
    /\ resp.body[1].timestamp # resp.body[2].timestamp
    /\ resp.body[1].status = RESOLVED
    /\ resp.body[2].status = OPEN

\* C9 as stated: an update of an existing row with a present payload that has
\* no status key, a payload with no keys at all included, answers 200 with
\* the row and changes nothing.
C9_UpdateWithoutStatus ==
    Done("update") /\ req.data.present /\ ~Has(req.data, "status") =>
        \A r \in before : r.id = req.id =>
            /\ resp.code = 200
            /\ resp.body = <<to_dict(r)>>
            /\ incidents = before

\* C9 amended: an update of an existing row with a payload that holds some
\* key but no status key answers 200 with the row and changes nothing; a
\* payload with no keys at all is answered 400 "No JSON data provided", also
\* without a change.
C9_UpdateWithoutStatusNonEmpty ==
    Done("update") /\ req.data.present /\ ~Has(req.data, "status") =>
        \A r \in before : r.id = req.id =>
            /\ incidents = before
            /\ IF \E k \in Keys : Has(req.data, k)
               THEN resp.code = 200 /\ resp.body = <<to_dict(r)>>
               ELSE resp.code = 400 /\ resp.error = "No JSON data provided"

\* Witness of C9: a Resolved row is updated with a payload that holds only a
\* severity and a title, both different from the row's.
C9_Witness ==
    /\ Done("update") /\ resp.code = 200
    /\ ~Has(req.data, "status") /\ Has(req.data, "severity") /\ Has(req.data, "title")
    /\ \E r \in before : /\ r.id = req.id /\ r.status = RESOLVED
                         /\ r.severity # req.data.obj["severity"]
                         /\ r.title # req.data.obj["title"]

\* A stored text: a string with something besides whitespace.
HasText(v) == IsStr(v) /\ \E i \in DOMAIN Chunks(v) : Chunks(v)[i] # " "

\* C10: in every state of the table no two rows share an id, every severity
\* is Low, Medium or High, every status is Open, In Progress or Resolved, and
\* title, description and reported_by are non-empty after trimming.
C10_TableInvariant ==
    /\ \A r1, r2 \in incidents : r1.id = r2.id => r1 = r2
    /\ \A r \in incidents :
        /\ r.severity \in ValidSeverities
        /\ r.status \in ValidStatuses
        /\ HasText(r.title) /\ HasText(r.description) /\ HasText(r.reported_by)

\* Witness of C10: two rows, one of them updated, a title with surrounding
\* whitespace, right after a create was refused for blank fields.
C10_Witness ==
    /\ Done("create") /\ resp.error = "Missing required field(s)"
    /\ Cardinality(incidents) >= 2
    /\ \E r \in incidents : r.status = IN_PROGRESS /\ Head(Chunks(r.title)) = " "

====
